---- MODULE Spec2Model ----
(***************************************************************************)
(* Model of AwsS3Storage (src/src/aws-s3.storage.ts): the S3 driver of the *)
(* factorydrive storage abstraction.                                       *)
(*                                                                         *)
(* The bucket is modelled as a map from object keys to bodies.  An object  *)
(* key is the string made of k repetitions of one character, written k; a  *)
(* prefix p (0 is the empty prefix '') matches the key k exactly when      *)
(* p <= k.  A body is written 1..NumContents; body 0 in the map means that *)
(* the bucket holds no object under the key.  The object operations run    *)
(* over the keys 1..NumLocs, the listings over the keys 1..NumKeys.        *)
(***************************************************************************)
EXTENDS Integers, Sequences, FiniteSets, TLC

\* ------------------------------------------------------------- bounds
NumLocs == 2
NumKeys == 3
NumContents == 2
MaxInflight == 1
PageCap == 2
NumSeqs == 2

\* MaxKeys of the page request (flatList)
MaxKeys == 1000
\* default of the expiresIn option (getSignedUrl)
DefaultExpiresIn == 900

Locs == 1..NumLocs
Contents == 1..NumContents
Keys == 1..NumKeys
Prefixes == 0..(NumKeys + 1)
Seqs == 1..NumSeqs
Encodings == {"utf-8", "latin1"}
NoPath == 0 - 1

VARIABLES
  store,              \* the bucket: key -> body, 0 when the key holds no object
  inflight,           \* putObject requests issued and not yet settled
  unhandled,          \* whether a putObject request failed with nobody awaiting it
  statusCodeOnError,  \* whether the client's errors carry a statusCode property
  mv,                 \* the move() call in progress and its history
  last,               \* outcome of the caller's latest completed call
  prev,               \* outcome of the call completed before it
  gen                 \* the flatList generators, one record per sequence

vars == <<store, inflight, unhandled, statusCodeOnError, mv, last, prev, gen>>

\* ------------------------------------------------------------- errors
NoErr == [name |-> "", statusCode |-> 0]

\* An error raised by the S3 client.  statusCode 0 stands for an error object
\* without a statusCode property: the client of @aws-sdk/client-s3 reports the
\* HTTP status under $metadata.httpStatusCode.
Err(name, code) ==
  [name |-> name, statusCode |-> IF statusCodeOnError THEN code ELSE 0]

Faults ==
  { Err("NoSuchBucket", 404), Err("AllAccessDisabled", 403), Err("InternalError", 500) }

Bucket == "bucket"

NoThrow == [kind |-> "", bucket |-> "", path |-> NoPath, name |-> "", cause |-> NoErr]

\* Mutant of handleError: the NoSuchKey and AllAccessDisabled cases swapped.
handleErrorSwapped(err, path, bucket) ==
  CASE err.name = "NoSuchBucket" ->
         [kind |-> "NoSuchBucketException", bucket |-> bucket, path |-> NoPath,
          name |-> "", cause |-> err]
    [] err.name = "NoSuchKey" ->
         [kind |-> "PermissionMissingException", bucket |-> "", path |-> path,
          name |-> "", cause |-> err]
    [] err.name = "AllAccessDisabled" ->
         [kind |-> "FileNotFoundException", bucket |-> "", path |-> path,
          name |-> "", cause |-> err]
    [] OTHER ->
         [kind |-> "UnknownException", bucket |-> "", path |-> path,
          name |-> err.name, cause |-> err]

\* handleError: the translated exception for a client error.
\* NoSuchBucketException is the spec's BucketNotFound, FileNotFoundException its
\* ObjectNotFound, PermissionMissingException its PermissionDenied and
\* UnknownException its UnknownStorageError.
handleError(err, path, bucket) ==
  CASE err.name = "NoSuchBucket" ->
         [kind |-> "NoSuchBucketException", bucket |-> bucket, path |-> NoPath,
          name |-> "", cause |-> err]
    [] err.name = "NoSuchKey" ->
         [kind |-> "FileNotFoundException", bucket |-> "", path |-> path,
          name |-> "", cause |-> err]
    [] err.name = "AllAccessDisabled" ->
         [kind |-> "PermissionMissingException", bucket |-> "", path |-> path,
          name |-> "", cause |-> err]
    [] OTHER ->
         [kind |-> "UnknownException", bucket |-> "", path |-> path,
          name |-> err.name, cause |-> err]

\* A client error that reaches the caller as it is (no catch around the call).
Untranslated(err) ==
  [kind |-> "S3ServiceException", bucket |-> "", path |-> NoPath,
   name |-> err.name, cause |-> err]

TranslatedKinds ==
  { "NoSuchBucketException", "FileNotFoundException",
    "PermissionMissingException", "UnknownException" }

\* ------------------------------------------------------------- backend
\* Outcomes of the client calls: [ok, err, body].
Ok(body) == [ok |-> TRUE, err |-> NoErr, body |-> body]
Fail(err) == [ok |-> FALSE, err |-> err, body |-> 0]
Injected == { Fail(f) : f \in Faults }

headObject(key) ==
  (IF store[key] > 0 THEN {Ok(store[key])} ELSE {Fail(Err("NotFound", 404))})
    \cup Injected

getObject(key) ==
  (IF store[key] > 0 THEN {Ok(store[key])} ELSE {Fail(Err("NoSuchKey", 404))})
    \cup Injected

copyObject(src) ==
  (IF store[src] > 0 THEN {Ok(store[src])} ELSE {Fail(Err("NoSuchKey", 404))})
    \cup Injected

deleteObject(key) == {Ok(0)} \cup Injected

presign(key) == {Ok(0)} \cup { Fail(Err("CredentialsProviderError", 0)) }

\* ------------------------------------------------------------- responses
NoContent == [enc |-> "", b |-> 0]

\* Buffer.from(body)
BufferFrom(body) == [enc |-> "", b |-> body]

\* buffer.toString(encoding)
toString(buf, encoding) == [enc |-> encoding, b |-> buf.b]

\* The record of a completed call: what was asked, what came back, and the
\* state of the bucket the call started from (was, quiet).
Call(op, loc) ==
  [op |-> op, loc |-> loc, dest |-> NoPath, arg |-> 0, status |-> "returned",
   content |-> NoContent, exists |-> FALSE, aux |-> 0, thrown |-> NoThrow,
   native |-> NoErr, was |-> store[loc], quiet |-> inflight = {},
   copyOk |-> FALSE, delIssued |-> FALSE, srcAfter |-> 0, destAfter |-> 0]

Raise(call, err, thrown) ==
  [call EXCEPT !.status = "raised", !.native = err, !.thrown = thrown]

NoPrev == [op |-> "", loc |-> NoPath, dest |-> NoPath, arg |-> 0, was |-> 0, quiet |-> TRUE]

\* What is remembered of the call completed before the latest one: a put or a
\* move that returned, with its arguments, the body its first location held
\* and whether no write was pending when it was called.
Remember(call) ==
  IF call.op \in {"put", "move"} /\ call.status = "returned"
    THEN [op |-> call.op, loc |-> call.loc, dest |-> call.dest, arg |-> call.arg,
          was |-> call.was, quiet |-> call.quiet]
    ELSE NoPrev

Complete(call) ==
  /\ last' = call
  /\ prev' = Remember(last)

Idle == mv.phase # "copied"

NoMove ==
  [phase |-> "none", src |-> NoPath, dest |-> NoPath, before |-> 0, quiet |-> TRUE,
   copyOk |-> FALSE]

NoCall ==
  [op |-> "", loc |-> NoPath, dest |-> NoPath, arg |-> 0, status |-> "",
   content |-> NoContent, exists |-> FALSE, aux |-> 0, thrown |-> NoThrow,
   native |-> NoErr, was |-> 0, quiet |-> TRUE,
   copyOk |-> FALSE, delIssued |-> FALSE, srcAfter |-> 0, destAfter |-> 0]

NoGen ==
  [pc |-> "none", prefix |-> 0, continuationToken |-> 0, page |-> <<>>, idx |-> 0,
   yielded |-> <<>>, fetched |-> <<>>, reqs |-> <<>>, resps |-> <<>>,
   failed |-> FALSE, thrown |-> NoThrow, native |-> NoErr]

Init ==
  /\ store \in [Locs -> 0..NumContents]
  /\ inflight = {}
  /\ unhandled = FALSE
  /\ statusCodeOnError \in BOOLEAN
  /\ mv = NoMove
  /\ last = NoCall
  /\ prev = NoPrev
  /\ gen = [s \in Seqs |-> NoGen]

\* ------------------------------------------------------------- operations
copy(src, dest) ==
  /\ Idle
  /\ \E o \in copyObject(src) :
       IF o.ok
         THEN /\ store' = [store EXCEPT ![dest] = o.body]
              /\ Complete([Call("copy", src) EXCEPT !.dest = dest])
         ELSE /\ store' = store
              /\ Complete(Raise([Call("copy", src) EXCEPT !.dest = dest], o.err,
                                handleError(o.err, src, Bucket)))
  /\ UNCHANGED <<inflight, unhandled, statusCodeOnError, mv, gen>>

delete(location) ==
  /\ Idle
  /\ \E o \in deleteObject(location) :
       IF o.ok
         THEN /\ store' = [store EXCEPT ![location] = 0]
              /\ Complete(Call("delete", location))
         ELSE /\ store' = store
              /\ Complete(Raise(Call("delete", location), o.err,
                                handleError(o.err, location, Bucket)))
  /\ UNCHANGED <<inflight, unhandled, statusCodeOnError, mv, gen>>

exists(location) ==
  /\ Idle
  /\ \E o \in headObject(location) :
       IF o.ok
         THEN Complete([Call("exists", location) EXCEPT !.exists = TRUE])
         ELSE IF o.err.statusCode = 404
           THEN Complete([Call("exists", location) EXCEPT
                            !.exists = FALSE, !.native = o.err])
           ELSE Complete(Raise(Call("exists", location), o.err,
                               handleError(o.err, location, Bucket)))
  /\ UNCHANGED <<store, inflight, unhandled, statusCodeOnError, mv, gen>>

getBufferResult(op, location, o) ==
  IF o.ok
    THEN [Call(op, location) EXCEPT !.content = BufferFrom(o.body)]
    ELSE Raise(Call(op, location), o.err, handleError(o.err, location, Bucket))

getBuffer(location) ==
  /\ Idle
  /\ \E o \in getObject(location) : Complete(getBufferResult("getBuffer", location, o))
  /\ UNCHANGED <<store, inflight, unhandled, statusCodeOnError, mv, gen>>

get(location, encoding) ==
  /\ Idle
  /\ \E o \in getObject(location) :
       LET bufferResult == getBufferResult("get", location, o) IN
       IF bufferResult.status = "returned"
         THEN Complete([bufferResult EXCEPT
                          !.content = toString(bufferResult.content, encoding)])
         ELSE Complete(bufferResult)
  /\ UNCHANGED <<store, inflight, unhandled, statusCodeOnError, mv, gen>>

getSignedUrl(location, expiresIn) ==
  /\ Idle
  /\ \E o \in presign(location) :
       IF o.ok
         THEN Complete([Call("getSignedUrl", location) EXCEPT !.aux = expiresIn])
         ELSE Complete(Raise(Call("getSignedUrl", location), o.err,
                             handleError(o.err, location, Bucket)))
  /\ UNCHANGED <<store, inflight, unhandled, statusCodeOnError, mv, gen>>

getStat(location) ==
  /\ Idle
  /\ \E o \in headObject(location) :
       IF o.ok
         THEN Complete([Call("getStat", location) EXCEPT !.aux = o.body])
         ELSE Complete(Raise(Call("getStat", location), o.err,
                             handleError(o.err, location, Bucket)))
  /\ UNCHANGED <<store, inflight, unhandled, statusCodeOnError, mv, gen>>

getStream(location) ==
  /\ Idle
  /\ \E o \in getObject(location) :
       IF o.ok
         THEN Complete([Call("getStream", location) EXCEPT !.content = BufferFrom(o.body)])
         ELSE Complete(Raise(Call("getStream", location), o.err, Untranslated(o.err)))
  /\ UNCHANGED <<store, inflight, unhandled, statusCodeOnError, mv, gen>>

\* put: putObject is called and its promise is handed back as raw without
\* being awaited; the request settles later (putSettles, putRejects).
put(location, content) ==
  /\ Idle
  /\ Cardinality(inflight) < MaxInflight
  /\ inflight' = inflight \cup {[loc |-> location, content |-> content]}
  /\ unhandled' = unhandled
  /\ Complete([Call("put", location) EXCEPT !.arg = content])
  /\ UNCHANGED <<store, statusCodeOnError, mv, gen>>

putSettles ==
  \E w \in inflight :
    /\ store' = [store EXCEPT ![w.loc] = w.content]
    /\ inflight' = inflight \ {w}
    /\ UNCHANGED <<unhandled, statusCodeOnError, mv, last, prev, gen>>

putRejects ==
  \E w \in inflight :
    /\ inflight' = inflight \ {w}
    /\ unhandled' = TRUE
    /\ UNCHANGED <<store, statusCodeOnError, mv, last, prev, gen>>

\* Mutant of moveAfterCopy: the delete is issued whatever the copy did.
moveAfterCopyAlways(copyRaised) == "delete"

\* move: `await this.copy(src, dest)` lets the copy's exception through, so the
\* delete is reached only when the copy returned.
moveAfterCopy(copyRaised) == IF copyRaised THEN "raise" ELSE "delete"

moveCopy(src, dest) ==
  /\ Idle
  /\ \E o \in copyObject(src) :
       LET after == IF o.ok THEN [store EXCEPT ![dest] = o.body] ELSE store
           call == [Call("move", src) EXCEPT
                      !.dest = dest, !.copyOk = o.ok,
                      !.srcAfter = after[src], !.destAfter = after[dest]]
       IN /\ store' = after
          /\ IF moveAfterCopy(~o.ok) = "raise"
               THEN /\ mv' = NoMove
                    /\ Complete(Raise(call, o.err, handleError(o.err, src, Bucket)))
               ELSE /\ mv' = [phase |-> "copied", src |-> src, dest |-> dest,
                              before |-> store[src], quiet |-> inflight = {},
                              copyOk |-> o.ok]
                    /\ UNCHANGED <<last, prev>>
  /\ UNCHANGED <<inflight, unhandled, statusCodeOnError, gen>>

moveDelete ==
  /\ mv.phase = "copied"
  /\ \E o \in deleteObject(mv.src) :
       LET after == IF o.ok THEN [store EXCEPT ![mv.src] = 0] ELSE store
           call == [Call("move", mv.src) EXCEPT
                      !.dest = mv.dest, !.was = mv.before, !.quiet = mv.quiet,
                      !.copyOk = mv.copyOk, !.delIssued = TRUE,
                      !.srcAfter = after[mv.src], !.destAfter = after[mv.dest]]
       IN /\ store' = after
          /\ mv' = NoMove
          /\ IF o.ok
               THEN Complete(call)
               ELSE Complete(Raise(call, o.err, handleError(o.err, mv.src, Bucket)))
  /\ UNCHANGED <<inflight, unhandled, statusCodeOnError, gen>>

\* ------------------------------------------------------------- listing
\* The keys of the bucket st under a prefix, after a continuation token.
KeysFrom(st, prefix, token) ==
  { k \in DOMAIN st : st[k] > 0 /\ k >= prefix /\ k > token }

RECURSIVE Ascending(_)
Ascending(S) ==
  IF S = {} THEN <<>>
  ELSE LET m == CHOOSE x \in S : \A y \in S : x <= y
       IN <<m>> \o Ascending(S \ {m})

\* The keys a complete listing of the prefix holds.
Matching(prefix) == Ascending(KeysFrom(store, prefix, 0))

\* A page holds at most MaxKeys keys, and the backend may send fewer.
PageSize == IF MaxKeys < PageCap THEN MaxKeys ELSE PageCap

\* listObjectsV2: the possible responses to a page request.  The token is the
\* last key of the page sent, 0 when the listing is complete (no
\* NextContinuationToken).  A listing without keys carries no Contents element,
\* which the client leaves undefined (has = FALSE); a backend that sends an
\* empty element gives the empty list.
listObjectsV2(prefix, token) ==
  LET all == Ascending(KeysFrom(store, prefix, token))
      n == IF Len(all) < PageSize THEN Len(all) ELSE PageSize
      items == SubSeq(all, 1, n)
      more == IF Len(all) > n THEN items[n] ELSE 0
  IN IF n = 0
       THEN { [has |-> h, Contents |-> <<>>, NextContinuationToken |-> 0] : h \in BOOLEAN }
       ELSE { [has |-> TRUE, Contents |-> items, NextContinuationToken |-> more] }

\* `for (const file of undefined)`
TypeError == [name |-> "TypeError", statusCode |-> 0]

\* Mutant of SetCursor: one cursor shared by all the sequences of the driver.
SetCursorShared(g, s, token) ==
  [x \in DOMAIN g |-> [g[x] EXCEPT !.continuationToken = token]]

\* continuationToken = response.NextContinuationToken, a local of the generator
SetCursor(g, s, token) == [g EXCEPT ![s].continuationToken = token]

\* Mutant of Caught: the catch swallows the error and the loop goes on.
CaughtSwallowed(g, err, rejected) ==
  [g EXCEPT !.pc = IF g.continuationToken # 0 THEN "loop" ELSE "done",
            !.failed = rejected, !.native = err]

\* catch (e) { throw handleError(e, prefix, this.$bucket) }: the generator ends.
Caught(g, err, rejected) ==
  [g EXCEPT !.pc = "raised", !.failed = rejected, !.native = err,
            !.thrown = handleError(err, g.prefix, Bucket)]

\* The generator, resumed with the response of its page request.
Resumed(g, r) ==
  IF ~r.has
    THEN Caught(g, TypeError, FALSE)
    ELSE IF r.Contents = <<>>
      THEN [g EXCEPT !.pc = IF g.continuationToken # 0 THEN "loop" ELSE "done"]
      ELSE [g EXCEPT !.pc = "yielded", !.page = r.Contents, !.idx = 1,
                     !.yielded = Append(@, r.Contents[1])]

flatList(s, prefix) ==
  /\ gen[s].pc = "none"
  /\ gen' = [gen EXCEPT ![s].pc = "start", ![s].prefix = prefix]
  /\ UNCHANGED <<store, inflight, unhandled, statusCodeOnError, mv, last, prev>>

\* next() at the head of the do loop: one page request.
nextFetch(s) ==
  /\ \/ gen[s].pc \in {"start", "loop"}
     \/ /\ gen[s].pc = "yielded"
        /\ gen[s].idx = Len(gen[s].page)
        /\ gen[s].continuationToken # 0
  /\ LET sent == [gen[s] EXCEPT !.reqs = Append(@, gen[s].continuationToken)] IN
       \/ \E f \in Faults :
            gen' = [gen EXCEPT ![s] = Caught(sent, f, TRUE)]
       \/ \E r \in listObjectsV2(sent.prefix, sent.continuationToken) :
            LET got == [sent EXCEPT !.resps = Append(@, r.NextContinuationToken),
                                    !.fetched = @ \o r.Contents]
                set == SetCursor([gen EXCEPT ![s] = got], s, r.NextContinuationToken)
            IN gen' = [set EXCEPT ![s] = Resumed(set[s], r)]
  /\ UNCHANGED <<store, inflight, unhandled, statusCodeOnError, mv, last, prev>>

\* next() inside the for loop: the next entry of the page.
nextYield(s) ==
  /\ gen[s].pc = "yielded"
  /\ gen[s].idx < Len(gen[s].page)
  /\ gen' = [gen EXCEPT ![s].idx = @ + 1,
                        ![s].yielded = Append(@, gen[s].page[gen[s].idx + 1])]
  /\ UNCHANGED <<store, inflight, unhandled, statusCodeOnError, mv, last, prev>>

\* next() after the last entry of the last page: while (continuationToken) ends.
nextReturn(s) ==
  /\ gen[s].pc = "yielded"
  /\ gen[s].idx = Len(gen[s].page)
  /\ gen[s].continuationToken = 0
  /\ gen' = [gen EXCEPT ![s].pc = "done"]
  /\ UNCHANGED <<store, inflight, unhandled, statusCodeOnError, mv, last, prev>>

\* ------------------------------------------------------------- specifications
\* The single-request operations.
NextObjects ==
  \/ \E src \in Locs, dest \in Locs : copy(src, dest)
  \/ \E location \in Locs : delete(location)
  \/ \E location \in Locs : exists(location)
  \/ \E location \in Locs : getBuffer(location)
  \/ \E location \in Locs, encoding \in Encodings : get(location, encoding)
  \/ \E location \in Locs, expiresIn \in {DefaultExpiresIn, 60} :
       getSignedUrl(location, expiresIn)
  \/ \E location \in Locs : getStat(location)
  \/ \E location \in Locs : getStream(location)

\* Moves and the probes that observe their result.
NextMove ==
  \/ \E src \in Locs, dest \in Locs : moveCopy(src, dest)
  \/ moveDelete
  \/ \E location \in Locs : exists(location)
  \/ \E location \in Locs : getBuffer(location)

\* Writes, their settlement and the reads that observe them.
NextPut ==
  \/ \E location \in Locs, content \in Contents : put(location, content)
  \/ putSettles
  \/ putRejects
  \/ \E location \in Locs : getBuffer(location)

\* Listings of a bucket that does not change while it is listed.
NextList ==
  \/ \E s \in Seqs, prefix \in Prefixes : flatList(s, prefix)
  \/ \E s \in Seqs : nextFetch(s)
  \/ \E s \in Seqs : nextYield(s)
  \/ \E s \in Seqs : nextReturn(s)

Next == NextObjects \/ NextMove \/ NextPut \/ NextList

\* The bucket a listing runs over: any set of the keys 1..NumKeys.  The bodies
\* play no part in a listing (every object listed holds body 1), and flatList
\* never reads the statusCode of an error.
InitList ==
  /\ store \in [Keys -> {0, 1}]
  /\ inflight = {}
  /\ unhandled = FALSE
  /\ statusCodeOnError = FALSE
  /\ mv = NoMove
  /\ last = NoCall
  /\ prev = NoPrev
  /\ gen = [s \in Seqs |-> NoGen]

\* Every operation of the driver; the claims are checked under the
\* specifications of its parts below.
Spec == Init /\ [][Next]_vars
SpecObjects == Init /\ [][NextObjects]_vars
SpecMove == Init /\ [][NextMove]_vars
SpecPut == Init /\ [][NextPut]_vars
SpecList == InitList /\ [][NextList]_vars

\* ------------------------------------------------------------- claims
IsPrefixOf(a, b) == Len(a) <= Len(b) /\ SubSeq(b, 1, Len(a)) = a

\* C1: a flatList sequence whose page requests the backend all answered ends
\* without raising and has yielded exactly the keys matching its prefix, each
\* once (checked under SpecList).
C1_FlatListYieldsAll ==
  \A s \in Seqs :
    (gen[s].pc \in {"done", "raised"} /\ ~gen[s].failed)
      => /\ gen[s].pc = "done"
         /\ gen[s].yielded = Matching(gen[s].prefix)

\* C2: a getBuffer(L) called right after put(L, b) returned, with no other
\* write to L pending and no backend call failing, returns b (SpecPut).
C2_PutThenGetBuffer ==
  ( /\ prev.op = "put" /\ prev.quiet /\ ~unhandled
    /\ last.op = "getBuffer" /\ last.loc = prev.loc
    /\ last.native \notin Faults )
    => /\ last.status = "returned"
       /\ last.content = BufferFrom(prev.arg)

\* C3: exists(L) returns exists = false without raising when the metadata
\* probe reports that L is not there, and exists = true when L is there and
\* the probe succeeds (SpecObjects).
C3_ExistsNeverRaisesNotFound ==
  last.op = "exists" =>
    /\ (last.was = 0 /\ last.native.name = "NotFound")
         => (last.status = "returned" /\ last.exists = FALSE)
    /\ (last.was > 0 /\ last.native = NoErr)
         => (last.status = "returned" /\ last.exists = TRUE)

\* C4: right after move(A, B) returned, with no fault in the calls that
\* follow, exists(A) returns false, exists(B) returns true and getBuffer(B)
\* returns the body A held before the move (SpecMove).
C4_MoveThenProbe ==
  (prev.op = "move" /\ last.native \notin Faults) =>
    /\ (last.op = "exists" /\ last.loc = prev.loc)
         => (last.status = "returned" /\ last.exists = FALSE)
    /\ (last.op = "exists" /\ last.loc = prev.dest)
         => (last.status = "returned" /\ last.exists = TRUE)
    /\ (last.op = "getBuffer" /\ last.loc = prev.dest)
         => (last.status = "returned" /\ last.content = BufferFrom(prev.was))

\* C5: a getBuffer(L) whose backend call fails raises exactly one translated
\* error, decided by the name of the backend error: NoSuchKey gives the
\* object-not-found kind for L, AllAccessDisabled the permission kind for L,
\* NoSuchBucket the bucket-not-found kind for the configured bucket, any other
\* name the unknown kind carrying that name and L; the original error is its
\* cause (SpecObjects).
C5_GetBufferErrorTranslation ==
  (last.op = "getBuffer" /\ last.native # NoErr) =>
    /\ last.status = "raised"
    /\ last.thrown.cause = last.native
    /\ last.native.name = "NoSuchKey"
         => (last.thrown.kind = "FileNotFoundException" /\ last.thrown.path = last.loc)
    /\ last.native.name = "AllAccessDisabled"
         => (last.thrown.kind = "PermissionMissingException"
             /\ last.thrown.path = last.loc)
    /\ last.native.name = "NoSuchBucket"
         => (last.thrown.kind = "NoSuchBucketException" /\ last.thrown.bucket = Bucket)
    /\ last.native.name \notin {"NoSuchKey", "AllAccessDisabled", "NoSuchBucket"}
         => (last.thrown.kind = "UnknownException"
             /\ last.thrown.name = last.native.name /\ last.thrown.path = last.loc)

C5_Witness ==
  /\ last.op = "getBuffer"
  /\ last.status = "raised"
  /\ last.native.name = "AllAccessDisabled"

\* C6: whatever an operation raises is one of the four translated kinds, and
\* the only backend failure that is not raised is the not-found outcome of
\* exists (SpecObjects).
C6_OnlyTranslatedErrorsEscape ==
  /\ last.status = "raised" => last.thrown.kind \in TranslatedKinds
  /\ (last.status = "returned" /\ last.native # NoErr)
       => (last.op = "exists" /\ last.exists = FALSE)

\* C7: when put(L, c) has returned, its write is no longer pending, and no
\* write has failed without its failure being raised to a caller (SpecPut).
C7_PutAwaited ==
  /\ (last.op = "put" /\ last.status = "returned")
       => [loc |-> last.loc, content |-> last.arg] \notin inflight
  /\ ~unhandled

C10_CursorIsPrivate ==
  /\ [](\A s \in Seqs :
          /\ \A i \in 1..Len(gen[s].reqs) :
               gen[s].reqs[i] = IF i = 1 THEN 0 ELSE gen[s].resps[i - 1]
          /\ IsPrefixOf(gen[s].yielded, Matching(gen[s].prefix))
          /\ gen[s].pc = "done" => gen[s].yielded = Matching(gen[s].prefix))
  /\ [][\A s \in Seqs :
          Len(gen'[s].reqs) > Len(gen[s].reqs)
            => /\ gen[s].idx = Len(gen[s].page)
               /\ gen[s].yielded = gen[s].fetched]_vars

C10_Witness ==
  \E s \in Seqs, t \in Seqs :
    /\ s # t
    /\ gen[s].prefix # gen[t].prefix
    /\ Len(gen[s].reqs) >= 2
    /\ gen[s].pc = "done"
    /\ gen[t].pc = "yielded"
    /\ Len(gen[t].yielded) > 0

====
